---------------------------- MODULE Spec2Model ----------------------------
(***************************************************************************)
(* A model of the SPD3303X control layer (src/src/instrument.rs): the      *)
(* typed operations of Spd3303x, the command strings they write to the     *)
(* transport, the replies they read back and the decoders applied to them. *)
(*                                                                         *)
(* Commands are TLA+ strings, built as the format! calls build them.       *)
(* Replies are sequences of byte values (0..255), so that trimming,        *)
(* case folding and numeric parsing are computed character by character.   *)
(* An f64 is represented by the integer number of millionths it denotes.   *)
(***************************************************************************)
EXTENDS Integers, Sequences, FiniteSets, TLC

(***************************************************************************)
(* Bounds of the model.                                                    *)
(***************************************************************************)
NumCallers == 2      \* callers sharing the one session
MaxArg     == 6      \* slot and group arguments range over 0..MaxArg, and 255
WordBits   == 11     \* status words cover every pattern of bits 0..WordBits-1

(***************************************************************************)
(* Program constants.                                                      *)
(***************************************************************************)
MAX_READ == 4096

-----------------------------------------------------------------------------
(***************************************************************************)
(* Result<T>: Ok(v) or Err(kind, ctx).  kind names the anyhow! / `?` site   *)
(* that produced the error; ctx is the text the message carries.           *)
(***************************************************************************)
Ok(v) == [ok |-> TRUE, val |-> v]
Err(kind, ctx) == [ok |-> FALSE, err |-> kind, ctx |-> ctx]
IsOk(r) == r.ok
IsErr(r, kind) == ~r.ok /\ r.err = kind

Unit == "()"

-----------------------------------------------------------------------------
(***************************************************************************)
(* The enumerations and their wire encodings.                              *)
(***************************************************************************)
Channel == {"Ch1", "Ch2", "Ch3"}
OutputState == {"On", "Off"}
TrackMode == {"Independent", "Series", "Parallel"}
TimerState == {"On", "Off"}
DhcpState == {"On", "Off"}

as_scpi(channel) ==
    CASE channel = "Ch1" -> "CH1"
      [] channel = "Ch2" -> "CH2"
      [] channel = "Ch3" -> "CH3"

as_str(state) ==
    CASE state = "On" -> "ON"
      [] state = "Off" -> "OFF"

as_value(mode) ==
    CASE mode = "Independent" -> 0
      [] mode = "Series" -> 1
      [] mode = "Parallel" -> 2

from_value_swapped(value) ==
    CASE value = 0 -> Ok("Independent")
      [] value = 1 -> Ok("Parallel")
      [] value = 2 -> Ok("Series")
      [] OTHER -> Err("UnknownTrackMode", ToString(value))

from_value(value) ==
    CASE value = 0 -> Ok("Independent")
      [] value = 1 -> Ok("Series")
      [] value = 2 -> Ok("Parallel")
      [] OTHER -> Err("UnknownTrackMode", ToString(value))

-----------------------------------------------------------------------------
(***************************************************************************)
(* Validation performed before a command is built.                         *)
(***************************************************************************)
ensure_slot_upto6(slot) ==
    IF slot \in 1..6 THEN Ok(Unit) ELSE Err("SlotRange", "slot must be 1..=5")

ensure_slot(slot) ==
    IF slot \in 1..5 THEN Ok(Unit) ELSE Err("SlotRange", "slot must be 1..=5")

ensure_group(group) ==
    IF group \in 1..5 THEN Ok(Unit)
    ELSE Err("GroupRange", "timer group must be 1..=5")

guard_programmable_any(channel) == Ok(Unit)

guard_programmable(channel) ==
    IF channel \in {"Ch1", "Ch2"} THEN Ok(Unit)
    ELSE Err("NotProgrammable", as_scpi(channel))

-----------------------------------------------------------------------------
(***************************************************************************)
(* Byte strings.                                                           *)
(***************************************************************************)
Min(S) == CHOOSE x \in S : \A y \in S : x <= y
Max(S) == CHOOSE x \in S : \A y \in S : x >= y

\* str::trim strips White_Space; of the one-byte characters these are
\* TAB, LF, VT, FF, CR and SPACE.
IsWhitespace(b) == b \in {9, 10, 11, 12, 13, 32}
IsNul(b) == b = 0
IsDigit(b) == b \in 48..57
IsHexDigit(b) == b \in (48..57) \cup (65..70) \cup (97..102)

\* s without its longest prefix and longest suffix of bytes satisfying Strip.
TrimBy(s, Strip(_)) ==
    LET keep == {i \in 1..Len(s) : ~Strip(s[i])}
    IN  IF keep = {} THEN <<>> ELSE SubSeq(s, Min(keep), Max(keep))

trim(s) == TrimBy(s, IsWhitespace)
trim_matches_nul(s) == TrimBy(s, IsNul)

\* String::from_utf8 succeeds on every all-ASCII buffer; the only non-ASCII
\* byte replies are built from here is 0xFF, which no UTF-8 text contains.
from_utf8_ok(bytes) == \A i \in 1..Len(bytes) : bytes[i] < 128

to_ascii_uppercase(b) == IF b \in 97..122 THEN b - 32 ELSE b
to_uppercase(s) == [i \in 1..Len(s) |-> to_ascii_uppercase(s[i])]

contains(s, pat) ==
    \E i \in 0..(Len(s) - Len(pat)) : SubSeq(s, i + 1, i + Len(pat)) = pat

eq_ignore_ascii_case(s, t) == to_uppercase(s) = to_uppercase(t)

starts_with(s, pat) == Len(s) >= Len(pat) /\ SubSeq(s, 1, Len(pat)) = pat

RECURSIVE trim_start_matches(_, _)
trim_start_matches(s, pat) ==
    IF pat # <<>> /\ starts_with(s, pat)
    THEN trim_start_matches(SubSeq(s, Len(pat) + 1, Len(s)), pat)
    ELSE s

\* The texts used as patterns, as bytes.
TextON == <<79, 78>>
Text1 == <<49>>
Text0x == <<48, 120>>
TextCH1 == <<67, 72, 49>>
TextCH2 == <<67, 72, 50>>
TextCH3 == <<67, 72, 51>>


-----------------------------------------------------------------------------
(***************************************************************************)
(* Numeric parsing and formatting.                                         *)
(***************************************************************************)
DigitValue(b) ==
    CASE b \in 48..57 -> b - 48
      [] b \in 65..70 -> b - 55
      [] b \in 97..102 -> b - 87

IsRadixDigit(b, radix) == IsHexDigit(b) /\ DigitValue(b) < radix

RECURSIVE NumVal(_, _)
NumVal(digits, radix) ==
    IF digits = <<>> THEN 0
    ELSE NumVal(SubSeq(digits, 1, Len(digits) - 1), radix) * radix
         + DigitValue(digits[Len(digits)])

\* {integer}::from_str_radix for an unsigned type whose largest value is max:
\* an optional '+', then one or more digits of the radix, no overflow.
from_str_radix(s, radix, max) ==
    LET digits == IF s # <<>> /\ s[1] = 43 THEN Tail(s) ELSE s
    IN  IF s = <<>> THEN Err("ParseInt", "cannot parse integer from empty string")
        ELSE IF digits = <<>>
                \/ \E i \in 1..Len(digits) : ~IsRadixDigit(digits[i], radix)
             THEN Err("ParseInt", "invalid digit found in string")
        ELSE IF NumVal(digits, radix) > max
             THEN Err("ParseInt", "number too large to fit in target type")
        ELSE Ok(NumVal(digits, radix))

parse_u8(s) == from_str_radix(s, 10, 255)

\* A u32 is kept as its two 16-bit halves (TLC's integers are
\* narrower than 32 bits unsigned).
U32(hi, lo) == [hi |-> hi, lo |-> lo]

\* The digits of a hexadecimal numeral folded from the left into a u32;
\* of records that a digit was shifted out of the 32 bits.
RECURSIVE HexFold(_, _)
HexFold(digits, acc) ==
    IF digits = <<>> THEN acc
    ELSE LET hi == acc.hi * 16 + acc.lo \div 4096
         IN  HexFold(Tail(digits),
                     [hi |-> hi % 65536,
                      lo |-> (acc.lo * 16 + DigitValue(Head(digits))) % 65536,
                      of |-> acc.of \/ hi > 65535])

\* u32::from_str_radix(s, 16)
parse_u32_hex(s) ==
    LET digits == IF s # <<>> /\ s[1] = 43 THEN Tail(s) ELSE s
        folded == HexFold(digits, [hi |-> 0, lo |-> 0, of |-> FALSE])
    IN  IF s = <<>> THEN Err("ParseInt", "cannot parse integer from empty string")
        ELSE IF digits = <<>>
                \/ \E i \in 1..Len(digits) : ~IsHexDigit(digits[i])
             THEN Err("ParseInt", "invalid digit found in string")
        ELSE IF folded.of
             THEN Err("ParseInt", "number too large to fit in target type")
        ELSE Ok(U32(folded.hi, folded.lo))

\* An f64 value: a finite number of millionths, an infinity or a NaN.
F64(micro) == [cls |-> "num", micro |-> micro]

\* str::parse::<f64> on texts without an exponent part: an optional sign,
\* then inf / infinity / nan in any case, or digits with at most one '.'
\* and at least one digit.  Digits after the sixth decimal are below the
\* resolution of the representation.
f64_from_str(s) ==
    LET signed == s # <<>> /\ s[1] \in {43, 45}
        neg    == s # <<>> /\ s[1] = 45
        body   == IF signed THEN Tail(s) ELSE s
        dots   == {i \in 1..Len(body) : body[i] = 46}
        dot    == IF dots = {} THEN Len(body) + 1 ELSE Min(dots)
        ipart  == SubSeq(body, 1, dot - 1)
        fpart  == SubSeq(body, dot + 1, Len(body))
        frac6  == [i \in 1..6 |-> IF i <= Len(fpart) THEN fpart[i] ELSE 48]
        mag    == NumVal(ipart, 10) * 1000000 + NumVal(frac6, 10)
        up     == to_uppercase(body)
    IN  IF up \in {<<73, 78, 70>>, <<73, 78, 70, 73, 78, 73, 84, 89>>}
        THEN Ok([cls |-> "inf", micro |-> IF neg THEN -1 ELSE 1])
        ELSE IF up = <<78, 65, 78>>
        THEN Ok([cls |-> "nan", micro |-> 0])
        ELSE IF /\ Cardinality(dots) <= 1
                /\ Len(ipart) + Len(fpart) >= 1
                /\ \A i \in 1..Len(ipart) : IsDigit(ipart[i])
                /\ \A i \in 1..Len(fpart) : IsDigit(fpart[i])
        THEN Ok(F64(IF neg THEN -mag ELSE mag))
        ELSE Err("ParseFloat", "invalid float literal")

parse_f64(input) == f64_from_str(trim(input))

\* format!("{:.6}", x) for x given in millionths.
Format6(micro) ==
    LET mag == IF micro < 0 THEN -micro ELSE micro
        d(k) == ToString((mag \div k) % 10)
    IN  (IF micro < 0 THEN "-" ELSE "") \o ToString(mag \div 1000000) \o "."
        \o d(100000) \o d(10000) \o d(1000) \o d(100) \o d(10) \o d(1)

-----------------------------------------------------------------------------
(***************************************************************************)
(* Response decoders.                                                      *)
(***************************************************************************)
parse_channel(value) ==
    LET up == to_uppercase(trim(value))
    IN  CASE up = TextCH1 -> Ok("Ch1")
          [] up = TextCH2 -> Ok("Ch2")
          [] up = TextCH3 -> Ok("Ch3")
          [] OTHER -> Err("UnknownChannel", "unknown channel")

parse_on_off(value) ==
    eq_ignore_ascii_case(trim(value), TextON) \/ trim(value) = Text1

\* str::split(',')
RECURSIVE split_comma(_)
split_comma(s) ==
    LET commas == {i \in 1..Len(s) : s[i] = 44}
    IN  IF commas = {} THEN <<s>>
        ELSE <<SubSeq(s, 1, Min(commas) - 1)>>
             \o split_comma(SubSeq(s, Min(commas) + 1, Len(s)))

\* The second field taken for the voltage and the first for the current.
parse_timer_response_current_first(group, resp) ==
    LET parts == split_comma(trim(resp))
        field(i) == IF Len(parts) < i
                    THEN Err("TimerFieldMissing", "missing field in timer response")
                    ELSE f64_from_str(parts[i])
    IN  IF ~field(1).ok THEN field(1)
        ELSE IF ~field(2).ok THEN field(2)
        ELSE IF ~field(3).ok THEN field(3)
        ELSE Ok([group |-> group, voltage_v |-> field(2).val,
                 current_a |-> field(1).val, duration_s |-> field(3).val])

parse_timer_response(group, resp) ==
    LET parts == split_comma(trim(resp))
        field(i) == IF Len(parts) < i
                    THEN Err("TimerFieldMissing", "missing field in timer response")
                    ELSE f64_from_str(parts[i])
    IN  IF ~field(1).ok THEN field(1)
        ELSE IF ~field(2).ok THEN field(2)
        ELSE IF ~field(3).ok THEN field(3)
        ELSE Ok([group |-> group, voltage_v |-> field(1).val,
                 current_a |-> field(2).val, duration_s |-> field(3).val])

-----------------------------------------------------------------------------
(***************************************************************************)
(* The status word.                                                        *)
(***************************************************************************)
Pow2(n) == 2 ^ n

\* Bit positions counted from 1.
BitFromOne(word, i) ==
    IF i + 1 < 16 THEN (word.lo \div Pow2(i + 1)) % 2
    ELSE (word.hi \div Pow2(i - 15)) % 2

\* word & (1 << i), as 0 or 1, for i in 0..31
Bit(word, i) ==
    IF i < 16 THEN (word.lo \div Pow2(i)) % 2
    ELSE (word.hi \div Pow2(i - 16)) % 2

NoTrackMode == "None"

from_word(word) ==
    LET track_bits == (word.lo \div Pow2(2)) % 4
    IN  [raw |-> word,
         ch1_regulation_mode |->
             IF Bit(word, 0) = 0 THEN "ConstantVoltage" ELSE "ConstantCurrent",
         ch2_regulation_mode |->
             IF Bit(word, 1) = 0 THEN "ConstantVoltage" ELSE "ConstantCurrent",
         track_mode |->
             CASE track_bits = 1 -> "Independent"
               [] track_bits = 3 -> "Series"
               [] track_bits = 2 -> "Parallel"
               [] OTHER -> NoTrackMode,
         ch1_output_on |-> Bit(word, 4) # 0,
         ch2_output_on |-> Bit(word, 5) # 0,
         timer1_on |-> Bit(word, 6) # 0,
         timer2_on |-> Bit(word, 7) # 0,
         ch1_waveform_display |-> Bit(word, 8) # 0,
         ch2_waveform_display |-> Bit(word, 9) # 0,
         parallel_mode |-> Bit(word, 10) # 0]

-----------------------------------------------------------------------------
(***************************************************************************)
(* Requests: one call of a public operation with its arguments.            *)
(*   ch  : the channel (NoChannel where there is none, or Option::None)    *)
(*   st  : the OutputState / TimerState / DhcpState / TrackMode argument   *)
(*   n   : the slot or group                                               *)
(*   v, i, s : volts or amps; timer current; timer seconds (millionths)    *)
(*   txt : the address text of set_ip / set_mask / set_gateway             *)
(***************************************************************************)
NoChannel == "None"
NoState == "-"

Req(name, ch, st, n, v) ==
    [name |-> name, ch |-> ch, st |-> st, n |-> n, v |-> v,
     i |-> 0, s |-> 0, txt |-> ""]

Bare(name) == Req(name, NoChannel, NoState, 0, 0)
OnChannel(name, ch) == Req(name, ch, NoState, 0, 0)

(***************************************************************************)
(* A primitive operation: the guard it evaluates first, the command it     *)
(* formats, whether it only writes ("set"), writes and reads ("query") or  *)
(* closes the transport ("close").                                         *)
(***************************************************************************)
Prim(guard, shape, cmd) == [guard |-> guard, shape |-> shape, cmd |-> cmd]

close == Prim(Ok(Unit), "close", "")

idn == Prim(Ok(Unit), "query", "*IDN?\n")

save_state(slot) ==
    Prim(ensure_slot(slot), "set", "*SAV " \o ToString(slot) \o "\n")

recall_state(slot) ==
    Prim(ensure_slot(slot), "set", "*RCL " \o ToString(slot) \o "\n")

select_channel(channel) ==
    Prim(Ok(Unit), "set", "INST " \o as_scpi(channel) \o "\n")

query_selected_channel == Prim(Ok(Unit), "query", "INST?\n")

set_voltage(channel, volts) ==
    Prim(guard_programmable(channel), "set",
         as_scpi(channel) \o ":VOLT " \o Format6(volts) \o "\n")

query_voltage(channel) ==
    Prim(guard_programmable(channel), "query", as_scpi(channel) \o ":VOLT?\n")

set_current(channel, amps) ==
    Prim(guard_programmable(channel), "set",
         as_scpi(channel) \o ":CURR " \o Format6(amps) \o "\n")

query_current(channel) ==
    Prim(guard_programmable(channel), "query", as_scpi(channel) \o ":CURR?\n")

set_output(channel, state) ==
    Prim(Ok(Unit), "set",
         "OUTPut " \o as_scpi(channel) \o "," \o as_str(state) \o "\n")

query_output(channel) ==
    Prim(IF channel \in {"Ch1", "Ch2"} THEN Ok(Unit)
         ELSE Err("Ch3OutputQuery",
                  "CH3 does not support querying output state"),
         "query", "SYST:STAT?\n")

set_track_mode(mode) ==
    Prim(Ok(Unit), "set", "OUTP:TRACK " \o ToString(as_value(mode)) \o "\n")

query_track_mode == Prim(Ok(Unit), "query", "OUTP:TRACK?\n")

set_wave_display(channel, state) ==
    Prim(guard_programmable(channel), "set",
         "OUTP:WAVE " \o as_scpi(channel) \o "," \o as_str(state) \o "\n")

\* The guard and the suffix shared by the three measurement queries.
MeasureGuard(channel) ==
    IF channel # NoChannel THEN guard_programmable(channel) ELSE Ok(Unit)
MeasureSuffix(channel) ==
    IF channel # NoChannel THEN " " \o as_scpi(channel) ELSE ""

measure_voltage(channel) ==
    Prim(MeasureGuard(channel), "query",
         "MEAS:VOLT?" \o MeasureSuffix(channel) \o "\n")

measure_current(channel) ==
    Prim(MeasureGuard(channel), "query",
         "MEAS:CURR?" \o MeasureSuffix(channel) \o "\n")

measure_power(channel) ==
    Prim(MeasureGuard(channel), "query",
         "MEAS:POWEr?" \o MeasureSuffix(channel) \o "\n")

\* guard_programmable(channel)?; ensure_group(group)?;
TimerGuard(channel, group) ==
    IF ~guard_programmable(channel).ok THEN guard_programmable(channel)
    ELSE ensure_group(group)

timer_set(channel, group, voltage, current, seconds) ==
    Prim(TimerGuard(channel, group), "set",
         "TIMER:SET " \o as_scpi(channel) \o "," \o ToString(group) \o ","
         \o Format6(voltage) \o "," \o Format6(current) \o ","
         \o Format6(seconds) \o "\n")

timer_query(channel, group) ==
    Prim(TimerGuard(channel, group), "query",
         "TIMER:SET? " \o as_scpi(channel) \o "," \o ToString(group) \o "\n")

timer_state(channel, state) ==
    Prim(guard_programmable(channel), "set",
         "TIMER " \o as_scpi(channel) \o "," \o as_str(state) \o "\n")

system_error == Prim(Ok(Unit), "query", "SYST:ERR?\n")
system_version == Prim(Ok(Unit), "query", "SYST:VERS?\n")
system_status == Prim(Ok(Unit), "query", "SYST:STAT?\n")

set_ip(ip) == Prim(Ok(Unit), "set", "IPaddr " \o ip \o "\n")
set_mask(mask) == Prim(Ok(Unit), "set", "MASKaddr " \o mask \o "\n")
set_gateway(gateway) == Prim(Ok(Unit), "set", "GATEaddr " \o gateway \o "\n")
query_ip == Prim(Ok(Unit), "query", "IPaddr?\n")
query_mask == Prim(Ok(Unit), "query", "MASKaddr?\n")
query_gateway == Prim(Ok(Unit), "query", "GATEaddr?\n")
set_dhcp(state) == Prim(Ok(Unit), "set", "DHCP " \o as_str(state) \o "\n")
query_dhcp == Prim(Ok(Unit), "query", "DHCP?\n")

\* The primitive a request names.
PrimOf(r) ==
    CASE r.name = "close" -> close
      [] r.name = "idn" -> idn
      [] r.name = "save_state" -> save_state(r.n)
      [] r.name = "recall_state" -> recall_state(r.n)
      [] r.name = "select_channel" -> select_channel(r.ch)
      [] r.name = "query_selected_channel" -> query_selected_channel
      [] r.name = "set_voltage" -> set_voltage(r.ch, r.v)
      [] r.name = "query_voltage" -> query_voltage(r.ch)
      [] r.name = "set_current" -> set_current(r.ch, r.v)
      [] r.name = "query_current" -> query_current(r.ch)
      [] r.name = "set_output" -> set_output(r.ch, r.st)
      [] r.name = "query_output" -> query_output(r.ch)
      [] r.name = "set_track_mode" -> set_track_mode(r.st)
      [] r.name = "query_track_mode" -> query_track_mode
      [] r.name = "set_wave_display" -> set_wave_display(r.ch, r.st)
      [] r.name = "measure_voltage" -> measure_voltage(r.ch)
      [] r.name = "measure_current" -> measure_current(r.ch)
      [] r.name = "measure_power" -> measure_power(r.ch)
      [] r.name = "timer_set" -> timer_set(r.ch, r.n, r.v, r.i, r.s)
      [] r.name = "timer_query" -> timer_query(r.ch, r.n)
      [] r.name = "timer_state" -> timer_state(r.ch, r.st)
      [] r.name = "system_error" -> system_error
      [] r.name = "system_version" -> system_version
      [] r.name = "system_status" -> system_status
      [] r.name = "set_ip" -> set_ip(r.txt)
      [] r.name = "set_mask" -> set_mask(r.txt)
      [] r.name = "set_gateway" -> set_gateway(r.txt)
      [] r.name = "query_ip" -> query_ip
      [] r.name = "query_mask" -> query_mask
      [] r.name = "query_gateway" -> query_gateway
      [] r.name = "set_dhcp" -> set_dhcp(r.st)
      [] r.name = "query_dhcp" -> query_dhcp

-----------------------------------------------------------------------------
(***************************************************************************)
(* What each query operation does with the text Spd3303x::query returns.   *)
(***************************************************************************)
query_selected_channel_decode(resp) == parse_channel(trim(resp))

system_status_decode(resp) ==
    LET trimmed == trim(trim_start_matches(resp, Text0x))
        word    == parse_u32_hex(trimmed)
    IN  IF ~word.ok THEN word ELSE Ok(from_word(word.val))

\* The output bits of the two channels taken for each other.
query_output_decode_swapped(channel, resp) ==
    LET status == system_status_decode(resp)
    IN  IF ~status.ok THEN status
        ELSE Ok(IF channel = "Ch1" THEN status.val.ch2_output_on
                ELSE status.val.ch1_output_on)

query_output_decode(channel, resp) ==
    LET status == system_status_decode(resp)
    IN  IF ~status.ok THEN status
        ELSE Ok(IF channel = "Ch1" THEN status.val.ch1_output_on
                ELSE status.val.ch2_output_on)

query_track_mode_decode(resp) ==
    LET value == parse_u8(trim(resp))
    IN  IF ~value.ok THEN value ELSE from_value(value.val)

query_dhcp_decode(resp) ==
    IF contains(to_uppercase(resp), TextON) THEN Ok("On") ELSE Ok("Off")

\* The operations that return the text of the reply as it is.
ReturnsText ==
    {"idn", "system_error", "system_version",
     "query_ip", "query_mask", "query_gateway"}

Decode(r, resp) ==
    CASE r.name \in ReturnsText -> Ok(resp)
      [] r.name = "query_selected_channel" -> query_selected_channel_decode(resp)
      [] r.name \in {"query_voltage", "query_current", "measure_voltage",
                     "measure_current", "measure_power"} -> parse_f64(resp)
      [] r.name = "query_output" -> query_output_decode(r.ch, resp)
      [] r.name = "query_track_mode" -> query_track_mode_decode(resp)
      [] r.name = "timer_query" -> parse_timer_response(r.n, resp)
      [] r.name = "system_status" -> system_status_decode(resp)
      [] r.name = "query_dhcp" -> query_dhcp_decode(resp)

\* The reply handed on without the emptiness check.
query_reply_unchecked(command, bytes) ==
    IF ~from_utf8_ok(bytes) THEN Err("Utf8", "invalid utf-8 sequence")
    ELSE Ok(trim(trim_matches_nul(bytes)))

\* Spd3303x::query after the transport read returned bytes.
query_reply(command, bytes) ==
    IF ~from_utf8_ok(bytes) THEN Err("Utf8", "invalid utf-8 sequence")
    ELSE LET trimmed == trim(trim_matches_nul(bytes))
         IN  IF trimmed = <<>> THEN Err("EmptyResponse", command)
             ELSE Ok(trimmed)

-----------------------------------------------------------------------------
(***************************************************************************)
(* The composite operations: the calls they make, in order, and the value  *)
(* they assemble from the results.                                         *)
(***************************************************************************)
\* The track mode set before the outputs are off.
soft_reset_track_first ==
    << Req("set_track_mode", NoChannel, "Independent", 0, 0),
       Req("set_output", "Ch1", "Off", 0, 0),
       Req("set_output", "Ch2", "Off", 0, 0),
       Req("set_output", "Ch3", "Off", 0, 0),
       Req("timer_state", "Ch1", "Off", 0, 0),
       Req("timer_state", "Ch2", "Off", 0, 0),
       Req("set_wave_display", "Ch1", "Off", 0, 0),
       Req("set_wave_display", "Ch2", "Off", 0, 0),
       Req("set_voltage", "Ch1", NoState, 0, 0),
       Req("set_current", "Ch1", NoState, 0, 0),
       Req("set_voltage", "Ch2", NoState, 0, 0),
       Req("set_current", "Ch2", NoState, 0, 0) >>

soft_reset ==
    << Req("set_output", "Ch1", "Off", 0, 0),
       Req("set_output", "Ch2", "Off", 0, 0),
       Req("set_output", "Ch3", "Off", 0, 0),
       Req("set_track_mode", NoChannel, "Independent", 0, 0),
       Req("timer_state", "Ch1", "Off", 0, 0),
       Req("timer_state", "Ch2", "Off", 0, 0),
       Req("set_wave_display", "Ch1", "Off", 0, 0),
       Req("set_wave_display", "Ch2", "Off", 0, 0),
       Req("set_voltage", "Ch1", NoState, 0, 0),
       Req("set_current", "Ch1", NoState, 0, 0),
       Req("set_voltage", "Ch2", NoState, 0, 0),
       Req("set_current", "Ch2", NoState, 0, 0) >>

\* The measurements read before the setpoints.
channel_status_measure_first(channel) ==
    << OnChannel("measure_voltage", channel),
       OnChannel("measure_current", channel),
       OnChannel("measure_power", channel),
       OnChannel("query_voltage", channel),
       OnChannel("query_current", channel) >>

channel_status(channel) ==
    << OnChannel("query_voltage", channel),
       OnChannel("query_current", channel),
       OnChannel("measure_voltage", channel),
       OnChannel("measure_current", channel),
       OnChannel("measure_power", channel) >>

Plan(r) ==
    CASE r.name = "soft_reset" -> soft_reset
      [] r.name = "channel_status" -> channel_status(r.ch)
      [] OTHER -> <<r>>

Finish(r, acc) ==
    CASE r.name = "soft_reset" -> Ok(Unit)
      [] r.name = "channel_status" ->
            Ok([set_voltage_v |-> acc[1], set_current_a |-> acc[2],
                measured_voltage_v |-> acc[3], measured_current_a |-> acc[4],
                measured_power_w |-> acc[5]])
      [] OTHER -> Ok(acc[1])

-----------------------------------------------------------------------------
(***************************************************************************)
(* The inputs: the arguments callers pass and the replies the transport    *)
(* delivers.                                                               *)
(***************************************************************************)
Callers == 1..NumCallers
NoCaller == 0

Args == (0..MaxArg) \cup {255}
Values == {0, 3300000}
Addresses == {"192.168.1.10"}

Requests ==
    {Bare(name) : name \in {"soft_reset", "close", "idn",
        "query_selected_channel", "query_track_mode", "system_error",
        "system_version", "system_status", "query_ip", "query_mask",
        "query_gateway", "query_dhcp"}}
    \cup {OnChannel(name, ch) : name \in {"select_channel", "query_voltage",
        "query_current", "query_output", "channel_status"}, ch \in Channel}
    \cup {OnChannel(name, ch) : name \in {"measure_voltage", "measure_current",
        "measure_power"}, ch \in Channel \cup {NoChannel}}
    \cup {Req(name, ch, NoState, 0, v) : name \in {"set_voltage", "set_current"},
        ch \in Channel, v \in Values}
    \cup {Req(name, ch, st, 0, 0) : name \in {"set_output", "set_wave_display",
        "timer_state"}, ch \in Channel, st \in OutputState}
    \cup {Req("set_track_mode", NoChannel, m, 0, 0) : m \in TrackMode}
    \cup {Req("set_dhcp", NoChannel, st, 0, 0) : st \in DhcpState}
    \cup {Req(name, NoChannel, NoState, n, 0) :
        name \in {"save_state", "recall_state"}, n \in Args}
    \cup {Req("timer_query", ch, NoState, n, 0) : ch \in Channel, n \in Args}
    \cup {[Req("timer_set", ch, NoState, n, v) EXCEPT !.i = 1000000, !.s = 2000000] :
        ch \in Channel, n \in Args, v \in Values}
    \cup {[Bare(name) EXCEPT !.txt = a] :
        name \in {"set_ip", "set_mask", "set_gateway"}, a \in Addresses}

Replies ==
    { <<>>,                          \* nothing
      <<32>>,                        \* " "
      <<0, 0>>,                      \* NUL NUL
      <<32, 0>>,                     \* " " NUL
      <<32, 0, 32>>,                 \* " " NUL " "
      <<255>>,                       \* not UTF-8
      <<79, 78>>,                    \* "ON"
      <<111, 110, 10>>,              \* "on\n"
      <<79, 70, 70>>,                \* "OFF"
      <<78, 79, 78, 69>>,            \* "NONE"
      <<48>>,                        \* "0"
      <<49>>,                        \* "1"
      <<50, 0>>,                     \* "2" NUL
      <<49, 48>>,                    \* "10"
      <<50, 53, 54>>,                \* "256"
      <<48, 120, 49, 48>>,           \* "0x10"
      <<48, 120, 50, 48>>,           \* "0x20"
      <<67, 72, 49>>,                \* "CH1"
      <<99, 104, 51, 13, 10>>,       \* "ch3\r\n"
      <<53, 46, 48, 44, 49, 46, 48, 44, 50, 46, 48>>,   \* "5.0,1.0,2.0"
      <<53, 46, 48, 44, 49, 46, 48>>,                   \* "5.0,1.0"
      <<53, 46, 48, 44, 120, 44, 50, 46, 48>>,          \* "5.0,x,2.0"
      <<53, 46, 48, 44, 49, 46, 48, 44, 50, 46, 48, 44, 57>> }  \* "5.0,1.0,2.0,9"

-----------------------------------------------------------------------------
(***************************************************************************)
(* The session.                                                            *)
(*   frame[c] : caller c's call of an operation, suspended at an await     *)
(*   holder   : the caller holding the exclusive borrow of the session     *)
(*   closed   : DeviceClient::close has succeeded                          *)
(*   log      : the transport calls made since the session was last quiet  *)
(*   bits     : the bit positions set in a status word (SpecStatus)        *)
(*   status   : the SystemStatus decoded from that word, once decoded      *)
(***************************************************************************)
VARIABLES frame, holder, closed, log, bits, status

vars == <<frame, holder, closed, log, bits, status>>

NoResult == Err("Pending", "")

IdleFrame ==
    [pc |-> "idle", req |-> Bare("none"), k |-> 0, acc |-> <<>>, cmd |-> "",
     resp |-> <<>>, decoded |-> FALSE, result |-> NoResult]

Event(ev, c, cmd, ok) == [ev |-> ev, by |-> c, cmd |-> cmd, ok |-> ok]

\* `&self` in place of `&mut self`: the session may be used while borrowed.
BorrowShared(c) == TRUE

\* Every operation takes `&mut self`: a call starts only when no other call
\* on the session is pending.
BorrowMut(c) == holder = NoCaller

\* Start call k of the plan: evaluate its guard, then format its command.
Begin(f, k) ==
    LET p == PrimOf(Plan(f.req)[k])
    IN  IF ~p.guard.ok
        THEN [f EXCEPT !.pc = "done", !.k = k, !.result = p.guard]
        ELSE [f EXCEPT !.pc = IF p.shape = "close" THEN "close" ELSE "write",
                       !.k = k, !.cmd = p.cmd, !.decoded = FALSE]

\* The error of a call dropped (`let _ = ...`): the sequence goes on.
FailIgnored(f, e) ==
    IF f.k < Len(Plan(f.req)) THEN Begin(f, f.k + 1)
    ELSE [f EXCEPT !.pc = "done", !.result = e]

\* A transport failure answered by issuing the call once more, as long as
\* nothing failed before.
FailRetryOnce(f, e) ==
    IF e.err \in {"WriteFailed", "ReadFailed"} /\ \A i \in 1..Len(log) : log[i].ok
    THEN f
    ELSE [f EXCEPT !.pc = "done", !.result = e]

\* `?` on an Err: the operation returns it.
Fail(f, e) == [f EXCEPT !.pc = "done", !.result = e]

\* Call k returned Ok(val): go on with the next call, or return.
Advance(f, val) ==
    LET acc == Append(f.acc, val)
    IN  IF f.k = Len(Plan(f.req))
        THEN [f EXCEPT !.pc = "done", !.acc = acc, !.result = Finish(f.req, acc)]
        ELSE Begin([f EXCEPT !.acc = acc], f.k + 1)

Init ==
    /\ frame = [c \in Callers |-> IdleFrame]
    /\ holder = NoCaller
    /\ closed = FALSE
    /\ log = <<>>
    /\ bits = {}
    /\ status = <<>>

Invoke(c, r) ==
    /\ frame[c].pc = "idle"
    /\ BorrowMut(c)
    /\ frame' = [frame EXCEPT ![c] = Begin([IdleFrame EXCEPT !.req = r], 1)]
    /\ holder' = c
    /\ log' = IF \A d \in Callers \ {c} : frame[d].pc = "idle" THEN <<>> ELSE log
    /\ UNCHANGED <<closed, bits, status>>

\* Spd3303x::write: one DeviceClient::write, whose error is returned with
\* the command as context.
TransportWrite(c) ==
    LET f == frame[c]
        p == PrimOf(Plan(f.req)[f.k])
    IN  /\ f.pc = "write"
        /\ \E ok \in BOOLEAN :
             /\ log' = Append(log, Event("write", c, f.cmd, ok))
             /\ frame' = [frame EXCEPT ![c] =
                    IF ~ok THEN Fail(f, Err("WriteFailed", f.cmd))
                    ELSE IF p.shape = "set" THEN Advance(f, Unit)
                    ELSE [f EXCEPT !.pc = "read"]]
        /\ UNCHANGED <<holder, closed, bits, status>>

\* The rest of Spd3303x::query, and what the operation does with its result.
Received(f, bytes) ==
    LET r     == Plan(f.req)[f.k]
        reply == query_reply(f.cmd, bytes)
        value == Decode(r, reply.val)
        g     == [f EXCEPT !.resp = bytes]
    IN  IF ~reply.ok THEN Fail(g, reply)
        ELSE IF ~value.ok THEN Fail([g EXCEPT !.decoded = TRUE], value)
        ELSE Advance([g EXCEPT !.decoded = TRUE], value.val)

TransportRead(c) ==
    LET f == frame[c]
    IN  /\ f.pc = "read"
        /\ \/ /\ log' = Append(log, Event("read", c, f.cmd, FALSE))
              /\ frame' = [frame EXCEPT ![c] = Fail(f, Err("ReadFailed", ""))]
           \/ \E bytes \in Replies :
                /\ Len(bytes) <= MAX_READ
                /\ log' = Append(log, Event("read", c, f.cmd, TRUE))
                /\ frame' = [frame EXCEPT ![c] = Received(f, bytes)]
        /\ UNCHANGED <<holder, closed, bits, status>>

\* Spd3303x::close: one DeviceClient::close.  Spd3303x keeps no record of
\* it: no operation consults closed, and what a later DeviceClient::write or
\* read reports is the transport's choice.
TransportClose(c) ==
    LET f == frame[c]
    IN  /\ f.pc = "close"
        /\ \E ok \in BOOLEAN :
             /\ log' = Append(log, Event("close", c, "", ok))
             /\ closed' = (closed \/ ok)
             /\ frame' = [frame EXCEPT ![c] =
                    IF ok THEN Advance(f, Unit) ELSE Fail(f, Err("CloseFailed", ""))]
        /\ UNCHANGED <<holder, bits, status>>

\* The call has returned: its result is the caller's and the borrow ends.
Return(c) ==
    /\ frame[c].pc = "done"
    /\ frame' = [frame EXCEPT ![c] = IdleFrame]
    /\ holder' = NoCaller
    /\ UNCHANGED <<closed, log, bits, status>>

Next ==
    \E c \in Callers :
        \/ \E r \in Requests : Invoke(c, r)
        \/ TransportWrite(c)
        \/ TransportRead(c)
        \/ TransportClose(c)
        \/ Return(c)

Spec == Init /\ [][Next]_vars

-----------------------------------------------------------------------------
(***************************************************************************)
(* The status word decoder on its own: a word is given by the set of its   *)
(* bit positions that are set, and SystemStatus::from_word is applied to   *)
(* it.  The words cover every pattern of bits 0..WordBits-1, each alone    *)
(* and with bits above them set.                                           *)
(***************************************************************************)
RECURSIVE SumPow2(_, _)
SumPow2(positions, base) ==
    IF positions = {} THEN 0
    ELSE LET i == CHOOSE i \in positions : TRUE
         IN  Pow2(i - base) + SumPow2(positions \ {i}, base)

WordOf(set) ==
    U32(SumPow2({i \in set : i >= 16}, 16), SumPow2({i \in set : i < 16}, 0))

HighBitSets == {{}, {WordBits}, {15, 16}, {31}, WordBits..31}

BitSets == {low \cup high : low \in SUBSET (0..(WordBits - 1)), high \in HighBitSets}

InitStatus ==
    /\ frame = [c \in Callers |-> IdleFrame]
    /\ holder = NoCaller
    /\ closed = FALSE
    /\ log = <<>>
    /\ bits \in BitSets
    /\ status = <<>>

DecodeStatusWord ==
    /\ status = <<>>
    /\ status' = <<from_word(WordOf(bits))>>
    /\ UNCHANGED <<frame, holder, closed, log, bits>>

SpecStatus == InitStatus /\ [][DecodeStatusWord]_vars

-----------------------------------------------------------------------------
(***************************************************************************)
(* The failure classes of the specification, as sets of error sites.       *)
(***************************************************************************)
TransportFailure == {"WriteFailed", "ReadFailed", "CloseFailed"}
EmptyResponse == {"EmptyResponse"}
DecodeFailure ==
    {"Utf8", "ParseFloat", "ParseInt", "TimerFieldMissing", "UnknownChannel"}
CapabilityViolation == {"NotProgrammable", "Ch3OutputQuery"}
RangeViolation == {"SlotRange", "GroupRange"}
UnknownEnumValue == {"UnknownTrackMode"}

Active(c) == frame[c].pc # "idle"
Done(c, name) == frame[c].pc = "done" /\ frame[c].req.name = name
Failed(c, kinds) == ~frame[c].result.ok /\ frame[c].result.err \in kinds
Commands(l) == [i \in 1..Len(l) |-> l[i].cmd]
AllWrites(l) == \A i \in 1..Len(l) : l[i].ev = "write"
AllOk(l) == \A i \in 1..Len(l) : l[i].ok
IsPrefix(a, b) == Len(a) <= Len(b) /\ a = SubSeq(b, 1, Len(a))

\* The reply the call last read, as Spd3303x::query hands it on.
ReplyText(c) == trim(trim_matches_nul(frame[c].resp))
\* The last transport call was the read of this caller's pending call, and it
\* delivered bytes.
JustRead(c) ==
    /\ Active(c)
    /\ log # <<>>
    /\ log[Len(log)].ev = "read"
    /\ log[Len(log)].by = c
    /\ log[Len(log)].ok

-----------------------------------------------------------------------------
SoftResetOrder ==
    << "OUTPut CH1,OFF\n", "OUTPut CH2,OFF\n", "OUTPut CH3,OFF\n",
       "OUTP:TRACK 0\n",
       "TIMER CH1,OFF\n", "TIMER CH2,OFF\n",
       "OUTP:WAVE CH1,OFF\n", "OUTP:WAVE CH2,OFF\n",
       "CH1:VOLT 0.000000\n", "CH1:CURR 0.000000\n",
       "CH2:VOLT 0.000000\n", "CH2:CURR 0.000000\n" >>

\* C1: the transport calls of a soft_reset are writes only, and the commands
\* written are at every moment a prefix of: output OFF for CH1, CH2, CH3;
\* track mode Independent; timer OFF for CH1, CH2; waveform display OFF for
\* CH1, CH2; CH1 voltage 0, CH1 current 0, CH2 voltage 0, CH2 current 0.
\* When soft_reset has returned and every write succeeded, the commands
\* written are exactly these twelve, in this order, and the result is Ok.
C1_SoftResetOrder ==
    \A c \in Callers :
        frame[c].req.name = "soft_reset" =>
            /\ AllWrites(log)
            /\ \A i \in 1..Len(log) : log[i].by = c
            /\ IsPrefix(Commands(log), SoftResetOrder)
            /\ (frame[c].pc = "done" /\ AllOk(log)) =>
                   /\ Commands(log) = SoftResetOrder
                   /\ frame[c].result = Ok(Unit)

C1_Witness ==
    \E c \in Callers :
        /\ Done(c, "soft_reset")
        /\ frame[c].result.ok
        /\ Len(log) = 12
        /\ AllOk(log)

\* C2: when a write of soft_reset fails, soft_reset returns the error of
\* that write (the transport failure, carrying the command that was being
\* sent), the failed write is the last transport call it makes, and the
\* commands written are exactly the first k of the soft-reset order, the
\* first k-1 of them successfully: nothing of a later step and nothing
\* compensating is written.
C2_SoftResetAborts ==
    \A c \in Callers :
        frame[c].req.name = "soft_reset" =>
            /\ (\E i \in 1..Len(log) : ~log[i].ok) =>
                   /\ frame[c].pc = "done"
                   /\ AllOk(SubSeq(log, 1, Len(log) - 1))
            /\ (frame[c].pc = "done" /\ ~frame[c].result.ok) =>
                   /\ Len(log) \in 1..12
                   /\ AllWrites(log)
                   /\ Commands(log) = SubSeq(SoftResetOrder, 1, Len(log))
                   /\ ~log[Len(log)].ok
                   /\ frame[c].result =
                          Err("WriteFailed", SoftResetOrder[Len(log)])

C2_Witness ==
    \E c \in Callers :
        /\ Done(c, "soft_reset")
        /\ Len(log) = 7
        /\ frame[c].result = Err("WriteFailed", "OUTP:WAVE CH1,OFF\n")

-----------------------------------------------------------------------------
Ch3Rejected ==
    {"set_voltage", "query_voltage", "set_current", "query_current",
     "timer_set", "timer_query", "timer_state", "set_wave_display",
     "measure_voltage", "measure_current", "measure_power", "query_output"}

\* C3: called for CH3, set_voltage, query_voltage, set_current,
\* query_current, timer_set, timer_query, timer_state, set_wave_display, the
\* three measurement queries and query_output return a capability violation
\* without any transport call; set_output for CH3 is never rejected: it
\* writes "OUTPut CH3,ON" or "OUTPut CH3,OFF" and nothing else, and fails
\* only if that write fails.
C3_Ch3Capabilities ==
    \A c \in Callers :
        (Active(c) /\ frame[c].req.ch = "Ch3") =>
            /\ frame[c].req.name \in Ch3Rejected =>
                   /\ frame[c].pc = "done"
                   /\ Failed(c, CapabilityViolation)
                   /\ log = <<>>
            /\ frame[c].req.name = "set_output" =>
                   /\ frame[c].pc \in {"write", "done"}
                   /\ frame[c].cmd =
                          (IF frame[c].req.st = "On" THEN "OUTPut CH3,ON\n"
                           ELSE "OUTPut CH3,OFF\n")
                   /\ frame[c].pc = "done" =>
                          /\ Commands(log) = <<frame[c].cmd>>
                          /\ AllWrites(log)
                          /\ frame[c].result.ok = log[1].ok
                          /\ frame[c].result.ok \/ Failed(c, {"WriteFailed"})

C3_Witness ==
    \E c \in Callers :
        /\ Done(c, "timer_query")
        /\ frame[c].req.ch = "Ch3"
        /\ frame[c].req.n = 3
        /\ Failed(c, CapabilityViolation)
        /\ log = <<>>

-----------------------------------------------------------------------------
SlotOps == {"save_state", "recall_state"}
GroupOps == {"timer_set", "timer_query"}

\* C4: save_state and recall_state write their command exactly when the slot
\* is in 1..5, and timer_set and timer_query on a programmable channel write
\* theirs exactly when the group is in 1..5; with any other value (0, 6, 7,
\* 255) they return a range violation without any transport call.  On CH3
\* the channel guard comes first and rejects every group.
C4_SlotGroupRange ==
    \A c \in Callers :
        LET f == frame[c]
            checked == \/ f.req.name \in SlotOps
                       \/ f.req.name \in GroupOps /\ f.req.ch \in {"Ch1", "Ch2"}
        IN  /\ (Active(c) /\ checked /\ f.req.n \in 1..5) =>
                   /\ f.pc = "write" => log = <<>>
                   /\ f.pc # "write" =>
                          /\ Len(log) >= 1
                          /\ log[1] = Event("write", c, f.cmd, log[1].ok)
                   /\ ~Failed(c, RangeViolation)
            /\ (Active(c) /\ checked /\ f.req.n \notin 1..5) =>
                   /\ f.pc = "done"
                   /\ Failed(c, RangeViolation)
                   /\ log = <<>>
            /\ (Active(c) /\ f.req.name \in GroupOps /\ f.req.n \notin 1..5) =>
                   /\ f.pc = "done"
                   /\ ~f.result.ok
                   /\ log = <<>>
            /\ (Active(c) /\ f.req.name = "save_state" /\ f.pc = "write") =>
                   f.cmd \in {"*SAV 1\n", "*SAV 2\n", "*SAV 3\n", "*SAV 4\n",
                              "*SAV 5\n"}

C4_Witness ==
    \E c \in Callers :
        /\ Done(c, "recall_state")
        /\ frame[c].req.n = 6
        /\ Failed(c, RangeViolation)
        /\ log = <<>>

-----------------------------------------------------------------------------
\* C5: for every word, from_word yields a SystemStatus (it has no failing
\* path) in which raw is the word, CH1 / CH2 regulation is ConstantCurrent
\* iff bit 0 / bit 1 is set and ConstantVoltage otherwise, the flags
\* ch1_output_on, ch2_output_on, timer1_on, timer2_on, ch1_waveform_display,
\* ch2_waveform_display, parallel_mode are true iff bits 4, 5, 6, 7, 8, 9, 10
\* are set, and the track mode is Independent for bits 3-2 = 01, Series for
\* 11, Parallel for 10 and unknown for 00.  Every field but raw is thereby a
\* function of bits 0..10 alone.
C5_StatusWordDecoding ==
    status # <<>> =>
        LET st == status[1]
        IN  /\ st.raw = WordOf(bits)
            /\ st.ch1_regulation_mode =
                   (IF 0 \in bits THEN "ConstantCurrent" ELSE "ConstantVoltage")
            /\ st.ch2_regulation_mode =
                   (IF 1 \in bits THEN "ConstantCurrent" ELSE "ConstantVoltage")
            /\ st.ch1_output_on = (4 \in bits)
            /\ st.ch2_output_on = (5 \in bits)
            /\ st.timer1_on = (6 \in bits)
            /\ st.timer2_on = (7 \in bits)
            /\ st.ch1_waveform_display = (8 \in bits)
            /\ st.ch2_waveform_display = (9 \in bits)
            /\ st.parallel_mode = (10 \in bits)
            /\ st.track_mode =
                   (CASE 2 \in bits /\ 3 \notin bits -> "Independent"
                      [] 2 \in bits /\ 3 \in bits -> "Series"
                      [] 2 \notin bits /\ 3 \in bits -> "Parallel"
                      [] OTHER -> NoTrackMode)

C5_Witness ==
    /\ status # <<>>
    /\ bits = {1, 3, 5, 10, 31}
    /\ status[1].track_mode = "Parallel"
    /\ status[1].ch2_output_on
    /\ ~status[1].ch1_output_on
    /\ status[1].raw = U32(32768, 1066)

-----------------------------------------------------------------------------
\* A decimal numeral: one or more digits after an optional sign.
IsIntegerText(t) ==
    LET digits == IF t # <<>> /\ t[1] \in {43, 45} THEN Tail(t) ELSE t
    IN  digits # <<>> /\ \A i \in 1..Len(digits) : IsDigit(digits[i])
IntegerValue(t) ==
    IF t[1] = 45 THEN 0 - NumVal(Tail(t), 10)
    ELSE IF t[1] = 43 THEN NumVal(Tail(t), 10)
    ELSE NumVal(t, 10)

ModeOfDigit(v) ==
    CASE v = 0 -> "Independent" [] v = 1 -> "Series" [] v = 2 -> "Parallel"

\* C6 (as amended): set_track_mode writes OUTP:TRACK 0, 1, 2 for
\* Independent, Series, Parallel, and query_track_mode decodes the replies
\* 0, 1, 2 to the same modes.  Any other integer reply that fits in a u8
\* (3..255) fails with UnknownEnumValue; an integer reply that does not fit
\* in a u8 fails in the integer parse, a decode failure, and not with
\* UnknownEnumValue.
C6_TrackModeRoundTrip ==
    \A c \in Callers :
        /\ (frame[c].req.name = "set_track_mode" /\ Active(c)) =>
               frame[c].cmd =
                   (CASE frame[c].req.st = "Independent" -> "OUTP:TRACK 0\n"
                      [] frame[c].req.st = "Series" -> "OUTP:TRACK 1\n"
                      [] frame[c].req.st = "Parallel" -> "OUTP:TRACK 2\n")
        /\ (Done(c, "query_track_mode") /\ JustRead(c)
               /\ from_utf8_ok(frame[c].resp) /\ IsIntegerText(ReplyText(c))) =>
               LET v == IntegerValue(ReplyText(c))
               IN  /\ v \in 0..2 => frame[c].result = Ok(ModeOfDigit(v))
                   /\ v \in 3..255 => Failed(c, UnknownEnumValue)
                   /\ v \notin 0..255 => Failed(c, {"ParseInt"})
        /\ (Done(c, "query_track_mode") /\ frame[c].result.ok) =>
               /\ JustRead(c)
               /\ IsIntegerText(ReplyText(c))
               /\ IntegerValue(ReplyText(c)) = as_value(frame[c].result.val)

C6_Witness ==
    \E c \in Callers :
        /\ Done(c, "query_track_mode")
        /\ frame[c].resp = <<50, 0>>
        /\ frame[c].result = Ok("Parallel")

\* C6 as stated: every integer reply other than 0, 1, 2 fails with
\* UnknownEnumValue.
C6_AnyOtherIntegerUnknownEnum ==
    \A c \in Callers :
        (Done(c, "query_track_mode") /\ JustRead(c)
            /\ from_utf8_ok(frame[c].resp) /\ IsIntegerText(ReplyText(c))
            /\ IntegerValue(ReplyText(c)) \notin 0..2) =>
            Failed(c, UnknownEnumValue)

-----------------------------------------------------------------------------
\* The reply is nothing but NUL padding around whitespace.
BlankReply(b) ==
    \E i, j \in 0..Len(b) :
        /\ i + j <= Len(b)
        /\ \A n \in 1..i : b[n] = 0
        /\ \A n \in (Len(b) - j + 1)..Len(b) : b[n] = 0
        /\ \A n \in (i + 1)..(Len(b) - j) : IsWhitespace(b[n])

\* C7: whenever a read delivers a reply that is empty once its NUL padding
\* and then its surrounding whitespace are stripped, the operation returns
\* EmptyResponse and no decoder has been run on the reply; and EmptyResponse
\* is returned in no other case: a failed read returns the transport
\* failure, a reply with text that does not parse returns a decode failure.
C7_EmptyResponse ==
    \A c \in Callers :
        LET f == frame[c]
        IN  /\ (JustRead(c) /\ from_utf8_ok(f.resp) /\ BlankReply(f.resp)) =>
                   /\ f.pc = "done"
                   /\ Failed(c, EmptyResponse)
                   /\ f.result.ctx = f.cmd
                   /\ ~f.decoded
            /\ (f.pc = "done" /\ Failed(c, EmptyResponse)) =>
                   /\ JustRead(c)
                   /\ from_utf8_ok(f.resp)
                   /\ BlankReply(f.resp)
            /\ (f.pc = "done" /\ log # <<>> /\ log[Len(log)].ev = "read"
                   /\ ~log[Len(log)].ok) =>
                   Failed(c, {"ReadFailed"})
            /\ (f.pc = "done" /\ Failed(c, DecodeFailure \ {"Utf8"})) =>
                   /\ f.decoded
                   /\ ReplyText(c) # <<>>

C7_Witness ==
    \E c \in Callers :
        /\ Done(c, "measure_power")
        /\ frame[c].resp = <<32, 0>>
        /\ Failed(c, EmptyResponse)
        /\ ~frame[c].decoded

-----------------------------------------------------------------------------
\* C8: query_dhcp returns On exactly when the reply matches ON in any case
\* or is the literal 1, and Off for every other non-empty reply.
C8_DhcpLenientParse ==
    \A c \in Callers :
        (Done(c, "query_dhcp") /\ frame[c].result.ok) =>
            (frame[c].result.val = "On") = parse_on_off(ReplyText(c))

-----------------------------------------------------------------------------
SetOps ==
    {"save_state", "recall_state", "select_channel", "set_voltage",
     "set_current", "set_output", "set_track_mode", "set_wave_display",
     "timer_set", "timer_state", "set_ip", "set_mask", "set_gateway",
     "set_dhcp"}

\* C9: while a query of any caller is between its write and its read, the
\* last call made on the transport is that query's own successful write:
\* nobody has written since.  Every read in the log directly follows the
\* successful write of the same command by the same caller, and nothing but
\* that read follows the write of a query.  A set operation makes at most
\* one transport call, a write.
C9_HalfDuplex ==
    /\ \A c \in Callers :
           frame[c].pc = "read" =>
               /\ log # <<>>
               /\ log[Len(log)] = Event("write", c, frame[c].cmd, TRUE)
    /\ \A i \in 1..Len(log) :
           log[i].ev = "read" =>
               /\ i > 1
               /\ log[i - 1] = Event("write", log[i].by, log[i].cmd, TRUE)
    /\ \A c \in Callers :
           (Active(c) /\ frame[c].req.name \in SetOps) =>
               /\ Len(log) <= 1
               /\ AllWrites(log)
               /\ frame[c].pc = "done" /\ frame[c].result.ok => Len(log) = 1
    /\ Cardinality({c \in Callers : Active(c)}) <= 1

C9_Witness ==
    /\ frame[2].pc = "read"
    /\ frame[2].req.name = "channel_status"
    /\ frame[2].k = 3
    /\ Len(log) = 5
    /\ closed

-----------------------------------------------------------------------------
ChannelStatusOrder(ch) ==
    IF ch = "Ch1"
    THEN << "CH1:VOLT?\n", "CH1:CURR?\n", "MEAS:VOLT? CH1\n",
            "MEAS:CURR? CH1\n", "MEAS:POWEr? CH1\n" >>
    ELSE << "CH2:VOLT?\n", "CH2:CURR?\n", "MEAS:VOLT? CH2\n",
            "MEAS:CURR? CH2\n", "MEAS:POWEr? CH2\n" >>

\* Each command written, then read.
Exchanges(cmds) ==
    [i \in 1..(2 * Len(cmds)) |->
        [ev |-> IF i % 2 = 1 THEN "write" ELSE "read", cmd |-> cmds[(i + 1) \div 2]]]

Shape(l) == [i \in 1..Len(l) |-> [ev |-> l[i].ev, cmd |-> l[i].cmd]]

\* C10: the transport calls of channel_status for CH1 or CH2 are at every
\* moment a prefix of: write and read of the set-voltage query, of the
\* set-current query, of the measured-voltage, measured-current and
\* measured-power queries of that channel.  It returns a ChannelStatus only
\* after all ten calls succeeded, holding the five values in that order; a
\* failure in exchange k is returned at once, with no later exchange.
C10_ChannelStatusOrder ==
    \A c \in Callers :
        LET f == frame[c]
        IN  (f.req.name = "channel_status" /\ f.req.ch \in {"Ch1", "Ch2"}) =>
                /\ IsPrefix(Shape(log), Exchanges(ChannelStatusOrder(f.req.ch)))
                /\ \A i \in 1..Len(log) : log[i].by = c
                /\ f.pc # "done" => AllOk(log) /\ Len(f.acc) = Len(log) \div 2
                /\ (f.pc = "done" /\ f.result.ok) =>
                       /\ Len(log) = 10
                       /\ AllOk(log)
                       /\ f.result.val =
                              [set_voltage_v |-> f.acc[1],
                               set_current_a |-> f.acc[2],
                               measured_voltage_v |-> f.acc[3],
                               measured_current_a |-> f.acc[4],
                               measured_power_w |-> f.acc[5]]
                       /\ parse_f64(ReplyText(c)) = Ok(f.acc[5])
                /\ (f.pc = "done" /\ ~f.result.ok) =>
                       /\ AllOk(SubSeq(log, 1, Len(log) - 1))
                       /\ Len(log) \in {2 * f.k - 1, 2 * f.k}
                       /\ Len(f.acc) = f.k - 1
                       /\ Len(log) = 2 * f.k - 1 =>
                              f.result = Err("WriteFailed", f.cmd)

C10_Witness ==
    \E c \in Callers :
        /\ Done(c, "channel_status")
        /\ frame[c].req.ch = "Ch2"
        /\ frame[c].result.ok
        /\ Len(log) = 10
        /\ frame[c].result.val.set_voltage_v = F64(10000000)
        /\ frame[c].result.val.measured_power_w = F64(2000000)

-----------------------------------------------------------------------------
\* The comma-separated fields of a text, by the positions of its commas.
FieldCount(t) == Cardinality({i \in 1..Len(t) : t[i] = 44}) + 1
CommaAt(t, n) ==
    CHOOSE i \in 1..Len(t) :
        t[i] = 44 /\ Cardinality({j \in 1..(i - 1) : t[j] = 44}) = n - 1
FieldAt(t, n) ==
    LET from == IF n = 1 THEN 0 ELSE CommaAt(t, n - 1)
        to   == IF n = FieldCount(t) THEN Len(t) + 1 ELSE CommaAt(t, n)
    IN  SubSeq(t, from + 1, to - 1)

\* A decimal number: an optional sign, digits with at most one point among
\* them, at least one digit.
NumericText(x) ==
    LET body == IF x # <<>> /\ x[1] \in {43, 45} THEN Tail(x) ELSE x
    IN  /\ \A i \in 1..Len(body) : IsDigit(body[i]) \/ body[i] = 46
        /\ Cardinality({i \in 1..Len(body) : body[i] = 46}) <= 1
        /\ \E i \in 1..Len(body) : IsDigit(body[i])

ThreeNumericFields(t) ==
    /\ FieldCount(t) >= 3
    /\ \A n \in 1..3 : NumericText(FieldAt(t, n))

\* C11 (as amended): a non-empty reply to timer_query decodes to a
\* TimerEntry exactly when it has at least three comma-separated fields of
\* which the first three are numeric; they are read as voltage, current,
\* duration in that order, the group passed by the caller is attached
\* unchanged, and fields after the third are ignored.  A reply with fewer
\* than three fields, or with a non-numeric field among the first three, is
\* a decode failure.
C11_TimerResponse ==
    \A c \in Callers :
        (Done(c, "timer_query") /\ JustRead(c) /\ from_utf8_ok(frame[c].resp)
            /\ ReplyText(c) # <<>>) =>
            LET t == ReplyText(c)
                r == frame[c].result
            IN  /\ r.ok = ThreeNumericFields(t)
                /\ r.ok =>
                       r.val = [group |-> frame[c].req.n,
                                voltage_v |-> f64_from_str(FieldAt(t, 1)).val,
                                current_a |-> f64_from_str(FieldAt(t, 2)).val,
                                duration_s |-> f64_from_str(FieldAt(t, 3)).val]
                /\ ~r.ok => Failed(c, DecodeFailure)

C11_Witness ==
    \E c \in Callers :
        /\ Done(c, "timer_query")
        /\ frame[c].req.n = 2
        /\ frame[c].resp = <<53, 46, 48, 44, 49, 46, 48, 44, 50, 46, 48>>
        /\ frame[c].result =
               Ok([group |-> 2, voltage_v |-> F64(5000000),
                   current_a |-> F64(1000000), duration_s |-> F64(2000000)])

\* C11 as stated: a reply decodes only if it has exactly three fields.
C11_ExactlyThreeFields ==
    \A c \in Callers :
        (Done(c, "timer_query") /\ JustRead(c) /\ frame[c].result.ok) =>
            FieldCount(ReplyText(c)) = 3

-----------------------------------------------------------------------------
\* C12: once close has succeeded, no operation makes a transport write or
\* read, and none but the close itself has returned a successful result.
C12_CloseIsTerminal ==
    closed =>
        /\ \A i \in 1..Len(log) : log[i].ev = "close"
        /\ \A c \in Callers :
               (frame[c].pc = "done" /\ frame[c].req.name # "close") =>
                   ~frame[c].result.ok

-----------------------------------------------------------------------------
\* A status word as the device sends it: hexadecimal digits (at most seven
\* here), with or without the prefix 0x.
HexDigitsOf(t) ==
    IF Len(t) >= 2 /\ t[1] = 48 /\ t[2] = 120 THEN SubSeq(t, 3, Len(t)) ELSE t
HexWordText(t) ==
    /\ HexDigitsOf(t) # <<>>
    /\ Len(HexDigitsOf(t)) <= 7
    /\ \A i \in 1..Len(HexDigitsOf(t)) : IsHexDigit(HexDigitsOf(t)[i])
HexWordValue(t) == NumVal(HexDigitsOf(t), 16)
OutputBit(ch) == IF ch = "Ch1" THEN 4 ELSE 5

\* C13: the transport calls of query_output for CH1 or CH2 are at every
\* moment a prefix of one write of SYST:STAT? followed by one read; it
\* returns a value only after both succeeded; and when the reply is a
\* hexadecimal word, with or without the prefix 0x, it returns true iff bit 4
\* (CH1) or bit 5 (CH2) of that word is set.
C13_QueryOutput ==
    \A c \in Callers :
        LET f == frame[c]
        IN  (f.req.name = "query_output" /\ f.req.ch \in {"Ch1", "Ch2"}) =>
                /\ IsPrefix(Shape(log), Exchanges(<<"SYST:STAT?\n">>))
                /\ \A i \in 1..Len(log) : log[i].by = c
                /\ (f.pc = "done" /\ f.result.ok) =>
                       /\ Len(log) = 2
                       /\ AllOk(log)
                /\ (f.pc = "done" /\ JustRead(c) /\ from_utf8_ok(f.resp)
                       /\ HexWordText(ReplyText(c))) =>
                       f.result =
                           Ok((HexWordValue(ReplyText(c))
                                   \div (2 ^ OutputBit(f.req.ch))) % 2 = 1)

C13_Witness ==
    \E c \in Callers :
        /\ Done(c, "query_output")
        /\ frame[c].req.ch = "Ch2"
        /\ frame[c].resp = <<48, 120, 50, 48>>
        /\ frame[c].result = Ok(TRUE)
        /\ Len(log) = 2

-----------------------------------------------------------------------------
\* The operations that make exactly one call of Spd3303x::write or
\* Spd3303x::query.
Primitive(name) == name \notin {"none", "close", "soft_reset", "channel_status"}
EventsOf(c, ev) == {i \in 1..Len(log) : log[i].ev = ev /\ log[i].by = c}

\* C14: a primitive operation issues at most one transport write and at most
\* one transport read; a set issues no read; a read comes only after the
\* write succeeded; a failed write, or a failed read, ends the operation at
\* once, and that transport failure is its result.
C14_NoRetry ==
    \A c \in Callers :
        LET f == frame[c]
            p == PrimOf(f.req)
            W == EventsOf(c, "write")
            R == EventsOf(c, "read")
        IN  (Active(c) /\ Primitive(f.req.name)) =>
                /\ Cardinality(W) <= 1
                /\ Cardinality(R) <= 1
                /\ p.shape = "set" => R = {}
                /\ \A i \in R : \E j \in W : j < i /\ log[j].ok
                /\ (\E i \in W : ~log[i].ok) =>
                       /\ R = {}
                       /\ f.pc = "done"
                       /\ f.result = Err("WriteFailed", p.cmd)
                /\ (\E i \in R : ~log[i].ok) =>
                       /\ f.pc = "done"
                       /\ f.result = Err("ReadFailed", "")
                /\ (f.pc = "done" /\ Failed(c, TransportFailure)) =>
                       /\ log # <<>>
                       /\ ~log[Len(log)].ok

C14_Witness ==
    \E c \in Callers :
        /\ Done(c, "query_voltage")
        /\ frame[c].req.ch = "Ch1"
        /\ log = <<Event("write", c, "CH1:VOLT?\n", FALSE)>>
        /\ frame[c].result = Err("WriteFailed", "CH1:VOLT?\n")

=============================================================================
